---- MODULE Spec2Model ----
(***************************************************************************)
(* Model of aioinject's instance stores (src/aioinject/_store.py):         *)
(* InstanceStore (per-scope cache + two exit stacks) and SingletonStore    *)
(* (InstanceStore + per-type asyncio.Lock table + per-type threading.Lock  *)
(* table), driven by callers that follow the resolution protocol           *)
(*     with store.lock(provider) as flag:                                  *)
(*         if flag: obj = factory(); store.add(provider, obj)              *)
(*     store.get(provider)                                                 *)
(***************************************************************************)
EXTENDS Integers, Sequences, FiniteSets, TLC

(* ---------------------------- bounds ----------------------------------- *)
NCallers == 3
NScoped == 2
MaxRounds == 2
MaxRes == 3

(* ---------------------------- universe --------------------------------- *)
Callers == 1..NCallers
\* the callers that resolve through the scopes' plain stores
ScopedCallers == {p \in Callers: p <= NScoped}
Types == {"T1", "T2"}
Paths == {"async", "sync"}
\* store 0 is the container's SingletonStore, stores 1 and 2 are two scopes'
\* plain InstanceStores
Singletons == 0
Stores == {0, 1, 2}
\* NotInCache.sentinel; constructed instances are the positive integers
NotInCache == 0

VARIABLES
    cache,            \* InstanceStore._cache, per store: type -> instance
    locks,            \* SingletonStore._locks: type -> asyncio.Lock
    sync_locks,       \* SingletonStore._sync_locks: type -> threading.Lock
    fut,              \* the future a caller awaits inside asyncio.Lock.acquire
    cancelReq,        \* Task.cancel() was called on the caller's task
    pc,               \* position of each caller in the protocol
    store,            \* the store a caller resolves through
    provider,         \* the provider a caller resolves: [type_, lifetime]
    path,             \* "async": lock()/provide(), "sync": sync_lock()/provide_sync()
    holds,            \* caller is inside the `with self._locks[type_]` block
    flag,             \* the bool yielded by lock()/sync_lock()
    obj,              \* the instance the caller's factory returned
    result,           \* what the caller's final get() returned
    calls,            \* number of factory invocations made by the caller
    round,            \* number of resolutions the caller has finished
    nextObj,          \* identity of the next constructed instance
    exit_stack,       \* InstanceStore._exit_stack (AsyncExitStack callbacks)
    sync_exit_stack,  \* InstanceStore._sync_exit_stack (ExitStack callbacks)
    entered,          \* history: resources entered into the store, in order
    released,         \* history: release actions run, in order
    failed,           \* history: resources whose release action raised
    closeErr,         \* the error the last close ended with, as its chain of
                      \* failures, newest first (<<>>: no error, 0: the error
                      \* raised by the body of the with block)
    lastOps,          \* history: the last two operations on the exit stacks
    ret,              \* what the last enter_context / enter_sync_context call
                      \* was given and returned
    running,          \* the task the event loop is running now (0: none)
    annotations,      \* function.__annotations__: name -> annotation
    annotations0,     \* history: function.__annotations__ when the call began
    annotation,       \* remove_annotation's local: the entry it popped
    fn,               \* the function that is applied to the annotations
    apc,              \* position inside that function
    out,              \* the dict the function returned
    outer,            \* per caller: the resolutions it is in the middle of,
                      \* outermost first (the one in progress is in pc,
                      \* provider, flag and holds)
    resolved          \* per caller: how many dependencies of the type being
                      \* resolved are resolved already

callerVars == <<pc, store, provider, path, holds, flag, obj, result, calls, round, nextObj>>
lockVars == <<locks, sync_locks, fut, cancelReq>>
stackVars == <<exit_stack, sync_exit_stack, entered, released, failed, closeErr, lastOps,
               ret>>
annVars == <<annotations, annotations0, annotation, fn, apc, out>>
nestVars == <<outer, resolved>>
vars == <<cache, callerVars, lockVars, stackVars, running, annVars, nestVars>>

\* the names a function's __annotations__ may have: two parameters and the
\* return annotation
Params == {"a", "b"}
Names == Params \cup {"return"}
\* the name has no annotation
Absent == "absent"
\* remove_annotation's marker for "there was no entry"
sentinel == "sentinel"
\* the empty dict
NoEntries == [n \in {} |-> Absent]

\* no enter call was made yet
NoCall == [via |-> "none", kind |-> "plain", live |-> FALSE]

(* ---------------------------- helpers ---------------------------------- *)
Reverse(s) == [i \in 1..Len(s) |-> s[Len(s) + 1 - i]]

Remove(s, e) == SelectSeq(s, LAMBDA x: x # e)

RECURSIVE SumCalls(_, _)
SumCalls(f, S) ==
    IF S = {} THEN 0
    ELSE LET p == CHOOSE q \in S: TRUE IN f[p] + SumCalls(f, S \ {p})

\* a freshly created asyncio.Lock / threading.Lock; `exists` records that the
\* defaultdict has created the entry
NoLock == [exists |-> FALSE, locked |-> FALSE, waiters |-> <<>>]
NoSyncLock == [exists |-> FALSE, locked |-> FALSE]

(* --------------------- InstanceStore.get / add -------------------------- *)
\* InstanceStore.get: self._cache.get(provider.type_, NotInCache.sentinel)
Get(c, s, prov) == c[s][prov.type_]

\* add that caches whatever the provider's lifetime is
Add_Always(c, s, prov, o) == [c EXCEPT ![s][prov.type_] = o]

\* add into a cache that all stores share
Add_Shared(c, s, prov, o) ==
    IF prov.lifetime # "transient"
    THEN [x \in Stores |-> [c[x] EXCEPT ![prov.type_] = o]]
    ELSE c

\* InstanceStore.add: cache unless the provider's lifetime is transient
Add(c, s, prov, o) ==
    IF prov.lifetime # "transient"
    THEN [c EXCEPT ![s][prov.type_] = o]
    ELSE c

\* `provider.type_ not in self._cache`
NotCached(c, s, prov) == c[s][prov.type_] = NotInCache

(* --------------------- asyncio.Lock ------------------------------------ *)
\* a release that wakes nobody
WakeUpFirst_Nobody(f, waiters) == f

\* Lock._wake_up_first: set the result of the first waiter's future unless
\* that future is already done (a cancelled future is done)
WakeUpFirst(f, waiters) ==
    IF waiters = <<>> THEN f
    ELSE IF f[Head(waiters)] = "pending"
         THEN [f EXCEPT ![Head(waiters)] = "done"]
         ELSE f

\* the fast path test of Lock.acquire
CanTakeNow(l, f) ==
    /\ ~l.locked
    /\ \A i \in 1..Len(l.waiters): f[l.waiters[i]] = "cancelled"

(* --------------------- providers --------------------------------------- *)
\* Scoped / Singleton / Transient: a provider is its type_ and its lifetime
Scoped(t) == [type_ |-> t, lifetime |-> "scoped"]
Singleton(t) == [type_ |-> t, lifetime |-> "singleton"]
Transient(t) == [type_ |-> t, lifetime |-> "transient"]

(* --------------------- the resolution protocol ------------------------- *)
\* one lock for every type
TypeOf_Global(p) == "T1"

\* provider.type_: the key of the cache and of both lock tables
TypeOf(p) == provider[p].type_

\* Scheduling. Synchronous callers are threads and interleave at every step.
\* Asynchronous callers are tasks of one event loop: a task that has started
\* to run keeps the loop until it suspends (waiting for the lock's future,
\* inside an awaited factory) or ends.
Suspended == {"idle", "L_wait", "factory", "done", "cancelled", "failed", "off"}

Sched(p) ==
    /\ path[p] = "async" => running \in {0, p}
    /\ running' = IF path[p] = "async"
                  THEN IF pc'[p] \in Suspended THEN 0 ELSE p
                  ELSE running

\* a first check that always goes for the lock
LockCheck_AlwaysLock(p) ==
    /\ pc[p] = "idle"
    /\ store[p] = Singletons
    /\ pc' = [pc EXCEPT ![p] = "L_acquire"]
    /\ UNCHANGED <<cache, store, provider, path, holds, flag, obj, result, calls,
                   round, nextObj, lockVars, stackVars, annVars, nestVars>>
    /\ Sched(p)

\* SingletonStore.lock / sync_lock, first (unlocked) check of the cache
LockCheck(p) ==
    /\ pc[p] = "idle"
    /\ store[p] = Singletons
    /\ IF NotCached(cache, store[p], provider[p])
       THEN /\ pc' = [pc EXCEPT ![p] = "L_acquire"]
            /\ flag' = flag
       ELSE /\ pc' = [pc EXCEPT ![p] = "body"]
            /\ flag' = [flag EXCEPT ![p] = FALSE]
    /\ UNCHANGED <<cache, store, provider, path, holds, obj, result, calls, round,
                   nextObj, lockVars, stackVars, annVars, nestVars>>
    /\ Sched(p)

\* InstanceStore.lock / sync_lock: nullcontext(provider.type_ not in self._cache)
PlainLock(p) ==
    /\ pc[p] = "idle"
    /\ store[p] # Singletons
    /\ flag' = [flag EXCEPT ![p] = NotCached(cache, store[p], provider[p])]
    /\ pc' = [pc EXCEPT ![p] = "body"]
    /\ UNCHANGED <<cache, store, provider, path, holds, obj, result, calls, round,
                   nextObj, lockVars, stackVars, annVars, nestVars>>
    /\ Sched(p)

\* an asynchronous acquire that also waits while the thread lock is held
AcquireAsync_Shared(p) ==
    /\ pc[p] = "L_acquire"
    /\ path[p] = "async"
    /\ LET l == locks[TypeOf(p)] IN
       IF CanTakeNow(l, fut) /\ ~sync_locks[TypeOf(p)].locked
       THEN /\ locks' = [locks EXCEPT ![TypeOf(p)] =
                            [exists |-> TRUE, locked |-> TRUE, waiters |-> l.waiters]]
            /\ holds' = [holds EXCEPT ![p] = TRUE]
            /\ pc' = [pc EXCEPT ![p] = "L_yield"]
            /\ fut' = fut
       ELSE /\ locks' = [locks EXCEPT ![TypeOf(p)] =
                            [exists |-> TRUE, locked |-> l.locked,
                             waiters |-> Append(l.waiters, p)]]
            /\ fut' = [fut EXCEPT ![p] = "pending"]
            /\ pc' = [pc EXCEPT ![p] = "L_wait"]
            /\ holds' = holds
    /\ UNCHANGED <<cache, store, provider, path, flag, obj, result, calls, round,
                   nextObj, sync_locks, cancelReq, stackVars, annVars, nestVars>>
    /\ Sched(p)

\* `async with self._locks[provider.type_]`: asyncio.Lock.acquire up to its
\* first suspension
AcquireAsync(p) ==
    /\ pc[p] = "L_acquire"
    /\ path[p] = "async"
    /\ LET l == locks[TypeOf(p)] IN
       IF CanTakeNow(l, fut)
       THEN /\ locks' = [locks EXCEPT ![TypeOf(p)] =
                            [exists |-> TRUE, locked |-> TRUE, waiters |-> l.waiters]]
            /\ holds' = [holds EXCEPT ![p] = TRUE]
            /\ pc' = [pc EXCEPT ![p] = "L_yield"]
            /\ fut' = fut
       ELSE /\ locks' = [locks EXCEPT ![TypeOf(p)] =
                            [exists |-> TRUE, locked |-> l.locked,
                             waiters |-> Append(l.waiters, p)]]
            /\ fut' = [fut EXCEPT ![p] = "pending"]
            /\ pc' = [pc EXCEPT ![p] = "L_wait"]
            /\ holds' = holds
    /\ UNCHANGED <<cache, store, provider, path, flag, obj, result, calls, round,
                   nextObj, sync_locks, cancelReq, stackVars, annVars, nestVars>>
    /\ Sched(p)

\* asyncio.Lock.acquire after `await fut` returned: the woken waiter removes
\* its future and takes the lock
ResumeAsync(p) ==
    /\ pc[p] = "L_wait"
    /\ fut[p] = "done"
    /\ ~cancelReq[p]
    /\ locks' = [locks EXCEPT ![TypeOf(p)].waiters = Remove(@, p),
                              ![TypeOf(p)].locked = TRUE]
    /\ fut' = [fut EXCEPT ![p] = "none"]
    /\ holds' = [holds EXCEPT ![p] = TRUE]
    /\ pc' = [pc EXCEPT ![p] = "L_yield"]
    /\ UNCHANGED <<cache, store, provider, path, flag, obj, result, calls, round,
                   nextObj, sync_locks, cancelReq, stackVars, annVars, nestVars>>
    /\ Sched(p)

\* AcquireSync that does not wait for the lock to be free
AcquireSync_NoWait(p) ==
    /\ pc[p] = "L_acquire"
    /\ path[p] = "sync"
    /\ sync_locks' = [sync_locks EXCEPT ![TypeOf(p)] =
                         [exists |-> TRUE, locked |-> TRUE]]
    /\ holds' = [holds EXCEPT ![p] = TRUE]
    /\ pc' = [pc EXCEPT ![p] = "L_yield"]
    /\ UNCHANGED <<cache, store, provider, path, flag, obj, result, calls, round,
                   nextObj, locks, fut, cancelReq, stackVars, annVars, nestVars>>
    /\ Sched(p)

\* `with self._sync_locks[provider.type_]`: threading.Lock.acquire blocks
\* the thread until the lock is free
AcquireSync(p) ==
    /\ pc[p] = "L_acquire"
    /\ path[p] = "sync"
    /\ ~sync_locks[TypeOf(p)].locked
    /\ sync_locks' = [sync_locks EXCEPT ![TypeOf(p)] =
                         [exists |-> TRUE, locked |-> TRUE]]
    /\ holds' = [holds EXCEPT ![p] = TRUE]
    /\ pc' = [pc EXCEPT ![p] = "L_yield"]
    /\ UNCHANGED <<cache, store, provider, path, flag, obj, result, calls, round,
                   nextObj, locks, fut, cancelReq, stackVars, annVars, nestVars>>
    /\ Sched(p)

\* YieldFlag without the re-check of the cache inside the lock
YieldFlag_NoRecheck(p) ==
    /\ pc[p] = "L_yield"
    /\ flag' = [flag EXCEPT ![p] = TRUE]
    /\ pc' = [pc EXCEPT ![p] = "body"]
    /\ UNCHANGED <<cache, store, provider, path, holds, obj, result, calls, round,
                   nextObj, lockVars, stackVars, annVars, nestVars>>
    /\ Sched(p)

\* `yield provider.type_ not in self._cache` with the lock held
YieldFlag(p) ==
    /\ pc[p] = "L_yield"
    /\ flag' = [flag EXCEPT ![p] = NotCached(cache, store[p], provider[p])]
    /\ pc' = [pc EXCEPT ![p] = "body"]
    /\ UNCHANGED <<cache, store, provider, path, holds, obj, result, calls, round,
                   nextObj, lockVars, stackVars, annVars, nestVars>>
    /\ Sched(p)

\* the caller got flag True: it invokes the factory (provide / provide_sync);
\* an asynchronous factory may suspend before it returns
StartFactory(p) ==
    /\ pc[p] = "body"
    /\ flag[p]
    /\ calls' = [calls EXCEPT ![p] = @ + 1]
    /\ pc' = [pc EXCEPT ![p] = "factory"]
    /\ UNCHANGED <<cache, store, provider, path, holds, flag, obj, result, round,
                   nextObj, lockVars, stackVars, annVars, nestVars>>
    /\ Sched(p)

\* the factory returns a new instance and the caller adds it to the store
FinishFactory(p) ==
    /\ pc[p] = "factory"
    /\ obj' = [obj EXCEPT ![p] = nextObj]
    /\ nextObj' = nextObj + 1
    /\ cache' = Add(cache, store[p], provider[p], nextObj)
    /\ pc' = [pc EXCEPT ![p] = "leave"]
    /\ UNCHANGED <<store, provider, path, holds, flag, result, calls, round,
                   lockVars, stackVars, annVars, nestVars>>
    /\ Sched(p)

\* asyncio.Lock.release
ReleaseAsync(l) == [l EXCEPT !.locked = FALSE]

\* leaving the lock block without releasing the lock
Leave_KeepLock(p) ==
    /\ \/ pc[p] = "leave"
       \/ pc[p] = "body" /\ ~flag[p]
    /\ holds' = [holds EXCEPT ![p] = FALSE]
    /\ pc' = [pc EXCEPT ![p] = "get"]
    /\ UNCHANGED <<cache, store, provider, path, flag, obj, result, calls, round,
                   nextObj, lockVars, stackVars, annVars, nestVars>>
    /\ Sched(p)

\* leaving the lock block: the per-type lock is released when it was taken
Leave(p) ==
    /\ \/ pc[p] = "leave"
       \/ pc[p] = "body" /\ ~flag[p]
    /\ IF holds[p]
       THEN IF path[p] = "async"
            THEN /\ locks' = [locks EXCEPT ![TypeOf(p)] = ReleaseAsync(@)]
                 /\ fut' = WakeUpFirst(fut, locks[TypeOf(p)].waiters)
                 /\ sync_locks' = sync_locks
            ELSE /\ sync_locks' = [sync_locks EXCEPT ![TypeOf(p)].locked = FALSE]
                 /\ UNCHANGED <<locks, fut>>
       ELSE UNCHANGED <<locks, fut, sync_locks>>
    /\ holds' = [holds EXCEPT ![p] = FALSE]
    /\ pc' = [pc EXCEPT ![p] = "get"]
    /\ UNCHANGED <<cache, store, provider, path, flag, obj, result, calls, round,
                   nextObj, cancelReq, stackVars, annVars, nestVars>>
    /\ Sched(p)

\* the final store.get(provider)
DoGet(p) ==
    /\ pc[p] = "get"
    /\ result' = [result EXCEPT ![p] = Get(cache, store[p], provider[p])]
    /\ round' = [round EXCEPT ![p] = @ + 1]
    /\ pc' = [pc EXCEPT ![p] = "done"]
    /\ UNCHANGED <<cache, store, provider, path, holds, flag, obj, calls,
                   nextObj, lockVars, stackVars, annVars, nestVars>>
    /\ Sched(p)

\* the same caller resolves the same provider again
Restart(p) ==
    /\ pc[p] = "done"
    /\ round[p] < MaxRounds
    /\ pc' = [pc EXCEPT ![p] = "idle"]
    /\ UNCHANGED <<cache, store, provider, path, holds, flag, obj, result, calls,
                   round, nextObj, lockVars, stackVars, annVars, nestVars>>
    /\ Sched(p)

\* Task.cancel() on a caller suspended in asyncio.Lock.acquire: a pending
\* future is cancelled, a future that is already done stays done
Cancel(p) ==
    /\ pc[p] = "L_wait"
    /\ ~cancelReq[p]
    /\ running = 0
    /\ cancelReq' = [cancelReq EXCEPT ![p] = TRUE]
    /\ fut' = [fut EXCEPT ![p] = IF @ = "pending" THEN "cancelled" ELSE @]
    /\ UNCHANGED <<cache, callerVars, locks, sync_locks, stackVars, running, annVars, nestVars>>

\* CancelRun that does not hand the wake-up on to the next waiter
CancelRun_NoWake(p) ==
    /\ pc[p] = "L_wait"
    /\ cancelReq[p]
    /\ locks' = [locks EXCEPT ![TypeOf(p)].waiters = Remove(@, p)]
    /\ fut' = [fut EXCEPT ![p] = "none"]
    /\ pc' = [pc EXCEPT ![p] = "cancelled"]
    /\ UNCHANGED <<cache, store, provider, path, holds, flag, obj, result, calls,
                   round, nextObj, sync_locks, cancelReq, stackVars, annVars, nestVars>>
    /\ Sched(p)

\* the cancelled task runs: CancelledError is raised at `await fut`; the
\* finally clause removes the future, the except clause wakes the next waiter
\* if the lock is free, and the error leaves lock()
CancelRun(p) ==
    /\ pc[p] = "L_wait"
    /\ cancelReq[p]
    /\ LET w == Remove(locks[TypeOf(p)].waiters, p) IN
       /\ locks' = [locks EXCEPT ![TypeOf(p)].waiters = w]
       /\ fut' = IF ~locks[TypeOf(p)].locked
                 THEN WakeUpFirst([fut EXCEPT ![p] = "none"], w)
                 ELSE [fut EXCEPT ![p] = "none"]
    /\ pc' = [pc EXCEPT ![p] = "cancelled"]
    /\ UNCHANGED <<cache, store, provider, path, holds, flag, obj, result, calls,
                   round, nextObj, sync_locks, cancelReq, stackVars, annVars, nestVars>>
    /\ Sched(p)

(* --------------------- initial states ---------------------------------- *)
\* no function is being applied to any annotations
InitNoFunction ==
    /\ annotations = [n \in Names |-> Absent]
    /\ annotations0 = [n \in Names |-> Absent]
    /\ annotation = sentinel
    /\ fn = "none"
    /\ apc = "off"
    /\ out = NoEntries

\* InstanceStore.__init__ / SingletonStore.__init__: empty cache, empty exit
\* stacks, no locks
InitStoreVars ==
    /\ cache = [s \in Stores |-> [t \in Types |-> NotInCache]]
    /\ locks = [t \in Types |-> NoLock]
    /\ sync_locks = [t \in Types |-> NoSyncLock]
    /\ fut = [p \in Callers |-> "none"]
    /\ cancelReq = [p \in Callers |-> FALSE]
    /\ exit_stack = <<>>
    /\ sync_exit_stack = <<>>
    /\ entered = <<>>
    /\ released = <<>>
    /\ failed = {}
    /\ closeErr = <<>>
    /\ lastOps = <<"none", "none">>
    /\ ret = NoCall
    /\ running = 0

\* no caller is inside a nested resolution
InitFlat ==
    /\ outer = [p \in Callers |-> <<>>]
    /\ resolved = [p \in Callers |-> 0]

InitStores ==
    /\ InitStoreVars
    /\ InitNoFunction
    /\ InitFlat

InitCallers ==
    /\ pc = [p \in Callers |-> "idle"]
    /\ holds = [p \in Callers |-> FALSE]
    /\ flag = [p \in Callers |-> FALSE]
    /\ obj = [p \in Callers |-> NotInCache]
    /\ result = [p \in Callers |-> NotInCache]
    /\ calls = [p \in Callers |-> 0]
    /\ round = [p \in Callers |-> 0]
    /\ nextObj = 1

\* N requesters of one singleton type through the SingletonStore, all on the
\* same call path
Init ==
    /\ InitStores
    /\ InitCallers
    /\ store = [p \in Callers |-> Singletons]
    /\ provider = [p \in Callers |-> Singleton("T1")]
    /\ \E m \in Paths: path = [p \in Callers |-> m]

Step(p) ==
    \/ LockCheck(p)
    \/ AcquireAsync(p)
    \/ ResumeAsync(p)
    \/ AcquireSync(p)
    \/ YieldFlag(p)
    \/ StartFactory(p)
    \/ FinishFactory(p)
    \/ Leave(p)
    \/ DoGet(p)

Next == \E p \in Callers: Step(p)

Spec == Init /\ [][Next]_vars

\* callers of both paths resolve the same singleton type concurrently
InitMixed ==
    /\ InitStores
    /\ InitCallers
    /\ store = [p \in Callers |-> Singletons]
    /\ provider = [p \in Callers |-> Singleton("T1")]
    /\ path \in [Callers -> Paths]

SpecMixed == InitMixed /\ [][Next]_vars

\* asynchronous requesters of one singleton type, some of which are cancelled
\* while they wait for the per-type lock
InitAsync ==
    /\ InitStores
    /\ InitCallers
    /\ store = [p \in Callers |-> Singletons]
    /\ provider = [p \in Callers |-> Singleton("T1")]
    /\ path = [p \in Callers |-> "async"]

StepAsync(p) ==
    \/ LockCheck(p)
    \/ AcquireAsync(p)
    \/ ResumeAsync(p)
    \/ YieldFlag(p)
    \/ StartFactory(p)
    \/ FinishFactory(p)
    \/ Leave(p)
    \/ DoGet(p)
    \/ Cancel(p)
    \/ CancelRun(p)

NextCancel == \E p \in Callers: StepAsync(p)

SpecCancel == InitAsync /\ [][NextCancel]_vars

\* callers resolving a scoped type T1 and a transient type T2 through the two
\* scopes' plain InstanceStores, each caller up to MaxRounds times, all as
\* tasks or all as threads. Callers are interchangeable, so they are listed in
\* the order of (store, provider).
Rank(s, prov) == 2 * s + (IF prov.lifetime = "transient" THEN 1 ELSE 0)

InitScoped ==
    /\ InitStores
    /\ holds = [p \in Callers |-> FALSE]
    /\ flag = [p \in Callers |-> FALSE]
    /\ obj = [p \in Callers |-> NotInCache]
    /\ result = [p \in Callers |-> NotInCache]
    /\ calls = [p \in Callers |-> 0]
    /\ round = [p \in Callers |-> 0]
    /\ nextObj = 1
    /\ pc = [p \in Callers |-> IF p \in ScopedCallers THEN "idle" ELSE "off"]
    /\ store \in [Callers -> Stores \ {Singletons}]
    /\ provider \in [Callers -> {Scoped("T1"), Transient("T2")}]
    /\ \A p, q \in Callers: p < q =>
          Rank(store[p], provider[p]) <= Rank(store[q], provider[q])
    /\ \A p \in Callers \ ScopedCallers: store[p] = 2 /\ provider[p] = Transient("T2")
    /\ \E m \in Paths: path = [p \in Callers |-> m]

StepScoped(p) ==
    \/ PlainLock(p)
    \/ StartFactory(p)
    \/ FinishFactory(p)
    \/ Leave(p)
    \/ DoGet(p)
    \/ Restart(p)

NextScoped == \E p \in ScopedCallers: StepScoped(p)

\* concurrent resolutions through the plain stores
SpecScoped == InitScoped /\ [][NextScoped]_vars

\* no other caller of the same store is in the middle of a resolution
Sequential(p) ==
    \A q \in ScopedCallers \ {p}: store[q] = store[p] => pc[q] \in {"idle", "done"}

StepSeq(p) ==
    \/ Sequential(p) /\ PlainLock(p)
    \/ StartFactory(p)
    \/ FinishFactory(p)
    \/ Leave(p)
    \/ DoGet(p)
    \/ Restart(p)

NextSeq == \E p \in ScopedCallers: StepSeq(p)

\* resolutions that are sequential within each store (the two stores still
\* interleave)
SpecSeq == InitScoped /\ [][NextSeq]_vars

(* --------------------- exit stacks -------------------------------------- *)
\* what a value handed to enter_context / enter_sync_context can be:
\* a contextlib.ContextDecorator ("cm", what @contextmanager returns), a
\* contextlib.AsyncContextDecorator ("acm", what @asynccontextmanager
\* returns), or any other value ("plain")
Kinds == {"cm", "acm", "plain"}
\* what the resource's release does: return normally, raise a new error, or
\* swallow the error that is passed to it
ExitBehaviours == {"ok", "raise", "suppress"}
Values == [kind: Kinds, onExit: ExitBehaviours]
\* the error raised by the body of a with block
BlockError == 0

Push(stack, v, id) == Append(stack, [id |-> id, kind |-> v.kind, onExit |-> v.onExit])

Note(op) == <<lastOps[2], op>>

\* the value a call returns: `live` when it is what __enter__ / __aenter__
\* returned, otherwise it is the argument itself
Returned(via, v, live) == [via |-> via, kind |-> v.kind, live |-> live]

\* enter_sync_context_maybe: a ContextDecorator is entered on the ExitStack,
\* anything else is returned as it is
EnterSyncContext(v) ==
    /\ Len(entered) < MaxRes
    /\ IF v.kind = "cm"
       THEN /\ sync_exit_stack' = Push(sync_exit_stack, v, Len(entered) + 1)
            /\ entered' = Append(entered, Len(entered) + 1)
       ELSE UNCHANGED <<sync_exit_stack, entered>>
    /\ ret' = Returned("sync", v, v.kind = "cm")
    /\ lastOps' = Note("enter")
    /\ UNCHANGED <<cache, callerVars, lockVars, exit_stack, released, failed, closeErr, running,
                   annVars, nestVars>>

\* enter_context_maybe: a ContextDecorator or an AsyncContextDecorator is
\* entered on the AsyncExitStack, anything else is returned as it is
EnterContext(v) ==
    /\ Len(entered) < MaxRes
    /\ IF v.kind \in {"cm", "acm"}
       THEN /\ exit_stack' = Push(exit_stack, v, Len(entered) + 1)
            /\ entered' = Append(entered, Len(entered) + 1)
       ELSE UNCHANGED <<exit_stack, entered>>
    /\ ret' = Returned("async", v, v.kind \in {"cm", "acm"})
    /\ lastOps' = Note("enter")
    /\ UNCHANGED <<cache, callerVars, lockVars, sync_exit_stack, released, failed, closeErr, running,
                   annVars, nestVars>>

\* ExitStack.__exit__ / AsyncExitStack.__aexit__: pop and call the callbacks
\* last-in first-out. u.exc is exc_details (the chain of the current error),
\* u.pending is pending_raise, u.suppressed is suppressed_exc.
RECURSIVE Unwind(_, _)
Unwind(stack, u) ==
    IF stack = <<>> THEN u
    ELSE LET cb == stack[Len(stack)]
             rest == SubSeq(stack, 1, Len(stack) - 1)
             rel == Append(u.rel, cb.id)
         IN  IF cb.onExit = "raise"
             THEN Unwind(rest, [rel |-> rel, failed |-> u.failed \cup {cb.id},
                                exc |-> <<cb.id>> \o u.exc,
                                pending |-> TRUE, suppressed |-> u.suppressed])
             ELSE IF cb.onExit = "suppress" /\ u.exc # <<>>
             THEN Unwind(rest, [rel |-> rel, failed |-> u.failed, exc |-> <<>>,
                                pending |-> FALSE, suppressed |-> TRUE])
             ELSE Unwind(rest, [u EXCEPT !.rel = rel])

\* the unwinding of a whole stack; raised = TRUE when the with block was left
\* by an error
Exit(stack, raised) ==
    Unwind(stack, [rel |-> <<>>, failed |-> {},
                   exc |-> IF raised THEN <<BlockError>> ELSE <<>>,
                   pending |-> FALSE, suppressed |-> FALSE])

\* the error the with statement (or the caller of close) ends with
Outcome(u, raised) ==
    IF u.pending THEN u.exc
    ELSE IF raised /\ ~u.suppressed THEN <<BlockError>>
    ELSE <<>>

\* Close that runs the callbacks but leaves them on the stack
Close_NoPop(raised) ==
    LET u == Exit(sync_exit_stack, raised) IN
    /\ sync_exit_stack' = sync_exit_stack
    /\ released' = released \o u.rel
    /\ failed' = failed \cup u.failed
    /\ closeErr' = Outcome(u, raised)
    /\ lastOps' = Note(IF raised THEN "exit_raised" ELSE "close")
    /\ UNCHANGED <<cache, callerVars, lockVars, exit_stack, entered, ret, running, annVars,
                   nestVars>>

\* InstanceStore.__exit__; close() is __exit__(None, None, None)
Close(raised) ==
    LET u == Exit(sync_exit_stack, raised) IN
    /\ sync_exit_stack' = <<>>
    /\ released' = released \o u.rel
    /\ failed' = failed \cup u.failed
    /\ closeErr' = Outcome(u, raised)
    /\ lastOps' = Note(IF raised THEN "exit_raised" ELSE "close")
    /\ UNCHANGED <<cache, callerVars, lockVars, exit_stack, entered, ret, running, annVars,
                   nestVars>>

\* AClose that also drops the store's cached instances
AClose_Clear(raised) ==
    LET u == Exit(exit_stack, raised) IN
    /\ exit_stack' = <<>>
    /\ cache' = [cache EXCEPT ![1] = [t \in Types |-> NotInCache]]
    /\ released' = released \o u.rel
    /\ failed' = failed \cup u.failed
    /\ closeErr' = Outcome(u, raised)
    /\ lastOps' = Note(IF raised THEN "aexit_raised" ELSE "aclose")
    /\ UNCHANGED <<callerVars, lockVars, sync_exit_stack, entered, ret, running, annVars,
                   nestVars>>

\* InstanceStore.__aexit__; aclose() is __aexit__(None, None, None)
AClose(raised) ==
    LET u == Exit(exit_stack, raised) IN
    /\ exit_stack' = <<>>
    /\ released' = released \o u.rel
    /\ failed' = failed \cup u.failed
    /\ closeErr' = Outcome(u, raised)
    /\ lastOps' = Note(IF raised THEN "aexit_raised" ELSE "aclose")
    /\ UNCHANGED <<cache, callerVars, lockVars, sync_exit_stack, entered, ret, running, annVars,
                   nestVars>>

\* one scope's store: resources are entered and the store is closed
InitStack ==
    /\ InitStores
    /\ InitCallers
    /\ store = [p \in Callers |-> 1]
    /\ provider = [p \in Callers |-> Scoped("T1")]
    /\ path = [p \in Callers |-> "sync"]

NextStack ==
    \/ \E v \in Values: EnterSyncContext(v)
    \/ \E v \in Values: EnterContext(v)
    \/ \E raised \in BOOLEAN: Close(raised)
    \/ \E raised \in BOOLEAN: AClose(raised)

SpecStack == InitStack /\ [][NextStack]_vars

(* ======================= properties ==================================== *)
TotalCalls == SumCalls(calls, Callers)
CallsOn(m) == SumCalls(calls, {p \in Callers: path[p] = m})
Constructed == {obj[p]: p \in Callers} \ {NotInCache}

\* C1: N requesters on one call path resolving the same singleton type: the
\* factory never runs twice, it has run exactly once as soon as any requester
\* has left the lock block, and every finished requester's get returned the
\* one constructed instance.
C1_ExactlyOnce ==
    /\ TotalCalls <= 1
    /\ \A p \in Callers: pc[p] \in {"leave", "get", "done"} => TotalCalls = 1
    /\ \A p \in Callers: pc[p] = "done" =>
          /\ result[p] # NotInCache
          /\ Constructed = {result[p]}

\* all requesters have finished, one of them was the winner and the others
\* were refused the construction
C1_Witness ==
    /\ \A p \in Callers: pc[p] = "done" /\ result[p] = 1
    /\ Cardinality({p \in Callers: calls[p] = 1}) = 1
    /\ locks["T1"].exists \/ sync_locks["T1"].exists

\* C2 (as stated): across sync and async callers together the factory runs
\* at most once and all finished callers got the same instance.
C2_Original ==
    /\ TotalCalls <= 1
    /\ \A p, q \in Callers: pc[p] = "done" /\ pc[q] = "done" => result[p] = result[q]

\* C2 (amended): the cache is shared, the at-most-once guarantee is per lock
\* table: the factory runs at most once among the callers of lock and at most
\* once among the callers of sync_lock, and every get returns an instance
\* that one of the callers constructed.
C2_PerTable ==
    /\ \A m \in Paths: CallsOn(m) <= 1
    /\ \A p \in Callers: pc[p] = "done" => result[p] \in Constructed
    /\ \A p \in Callers: pc[p] = "idle" /\ Constructed # {} =>
          ~NotCached(cache, Singletons, provider[p])

\* a sync winner and an async winner both constructed, and a caller of one
\* path got the instance the other path's winner built
C2_Witness ==
    /\ CallsOn("sync") = 1 /\ CallsOn("async") = 1
    /\ \E p, q \in Callers: /\ path[p] # path[q]
                            /\ pc[p] = "done"
                            /\ calls[p] = 0
                            /\ result[p] = obj[q]

Holders(t) == {p \in Callers: holds[p] /\ TypeOf(p) = t /\ path[p] = "async"}
InSeq(e, s) == \E i \in 1..Len(s): s[i] = e

\* C10: a waiter cancelled while blocked on the per-type lock never holds the
\* lock, never ran the factory and never wrote the cache; it is gone from the
\* lock's waiter queue; the lock is locked exactly while a live caller is
\* inside the critical section; a free lock with waiters always has a waiter
\* that is about to run (no wake-up is lost); and the winner and the other
\* callers behave as without the cancelled waiter: one construction, and every
\* finished caller got that instance.
C10_CancelSafe ==
    /\ \A p \in Callers: pc[p] = "cancelled" =>
          /\ ~holds[p]
          /\ calls[p] = 0 /\ obj[p] = NotInCache
          /\ \A t \in Types: ~InSeq(p, locks[t].waiters)
    /\ \A t \in Types:
          /\ Cardinality(Holders(t)) <= 1
          /\ locks[t].locked <=> Holders(t) # {}
          /\ (~locks[t].locked /\ locks[t].waiters # <<>>) =>
                \E i \in 1..Len(locks[t].waiters):
                    fut[locks[t].waiters[i]] \in {"done", "cancelled"}
    /\ TotalCalls <= 1
    /\ \A p \in Callers: pc[p] = "done" => result[p] = 1 /\ Constructed = {1}

\* a waiter was cancelled while it was blocked on the lock, and another
\* caller has finished with the winner's instance while the lock is free again
C10_Witness ==
    \E p, q \in Callers:
        /\ pc[p] = "cancelled"
        /\ pc[q] = "done" /\ calls[q] = 0 /\ result[q] = 1
        /\ locks["T1"].exists /\ ~locks["T1"].locked

CallsIn(s, prov) == SumCalls(calls, {p \in Callers: store[p] = s /\ provider[p] = prov})
PlainStores == Stores \ {Singletons}

\* C3 (as stated): with concurrent asynchronous callers of one plain
\* InstanceStore the factory of a scoped type runs at most once per store.
C3_OncePerStore ==
    (\A p \in Callers: path[p] = "async") =>
        \A s \in PlainStores: CallsIn(s, Scoped("T1")) <= 1

\* C4: add on one store leaves every other store's cache alone, so two stores
\* that resolved the same scoped type hold two different instances; within a
\* store, once the first resolution has added its instance the entry never
\* changes, every later lock yields False, the factory has run once, and get
\* returns that instance.
C4_ScopedIsolation ==
    [][ /\ \A p \in Callers: pc[p] = "factory" /\ pc'[p] = "leave" =>
              \A s \in Stores \ {store[p]}: cache'[s] = cache[s]
        /\ \A s \in PlainStores:
              /\ cache[s]["T1"] # NotInCache => cache'[s]["T1"] = cache[s]["T1"]
              /\ CallsIn(s, Scoped("T1"))' <= 1
        /\ \A p \in Callers:
              /\ pc[p] = "idle" /\ pc'[p] = "body" /\ ~NotCached(cache, store[p], provider[p])
                    => ~flag'[p]
              /\ pc[p] = "get" /\ pc'[p] = "done" /\ provider[p] = Scoped("T1")
                    => result'[p] = cache[store[p]]["T1"] /\ result'[p] # NotInCache
        /\ (cache'[1]["T1"] # NotInCache /\ cache'[2]["T1"] # NotInCache)
              => cache'[1]["T1"] # cache'[2]["T1"]
      ]_vars

\* both stores hold their own instance of the scoped type, and in store 1 a
\* second resolution was served from the cache
C4_Witness ==
    /\ cache[1]["T1"] # NotInCache /\ cache[2]["T1"] # NotInCache
    /\ cache[1]["T1"] # cache[2]["T1"]
    /\ CallsIn(1, Scoped("T1")) = 1
    /\ \E p \in Callers: /\ store[p] = 1 /\ provider[p] = Scoped("T1")
                         /\ pc[p] = "done" /\ round[p] = 2
                         /\ ~flag[p] /\ result[p] = cache[1]["T1"]

InFlight(p) == IF pc[p] \in {"factory", "leave", "get"} THEN 1 ELSE 0

\* C5: a type bound only to a transient provider is never in any cache; every
\* request for it gets flag True and runs the factory again, and its get
\* returns NotInCache.
C5_TransientNeverCached ==
    /\ \A s \in Stores: cache[s]["T2"] = NotInCache
    /\ \A p \in Callers: provider[p] = Transient("T2") =>
          /\ pc[p] \in {"body", "factory", "leave", "get"} => flag[p]
          /\ calls[p] = round[p] + InFlight(p)
          /\ pc[p] = "done" => result[p] = NotInCache /\ flag[p]

\* a caller resolved the transient type twice: two factory runs, two
\* different instances, nothing cached
C5_Witness ==
    \E p \in Callers: /\ provider[p] = Transient("T2")
                      /\ pc[p] = "done" /\ round[p] = 2 /\ calls[p] = 2
                      /\ obj[p] > 1
                      /\ result[p] = NotInCache

Range(q) == {q[i]: i \in 1..Len(q)}
CloseOps == {"close", "aclose", "exit_raised", "aexit_raised"}
\* the resources entered into the store and not released yet, in entry order
Pending == SelectSeq(entered, LAMBDA id: id \notin Range(released))

\* C6 (as stated): closing the store runs the release actions of the
\* resources entered into it in exactly the reverse order of entry, each once.
C6_LIFO ==
    [][lastOps'[2] \in CloseOps => released' = released \o Reverse(Pending)]_vars

\* C7 (as stated): once a close has finished, every release action registered
\* on the store has been run, whichever of enter_sync_context / enter_context
\* registered it and whichever of close / aclose / leaving a with block
\* closed the store.
C7_AllReleased ==
    lastOps[2] \in CloseOps => \A i \in 1..Len(entered): entered[i] \in Range(released)

\* C8 (as stated): when during a close the release of a resource raises, the
\* release of every resource entered before it has been attempted when the
\* close ends, and the error the close ends with carries every release
\* failure of that close.
C8_NoAbort ==
    [][lastOps'[2] \in CloseOps =>
          LET now == failed' \ failed IN
          /\ \A j \in 1..Len(entered): entered[j] \in now =>
                \A i \in 1..(j - 1): entered[i] \in Range(released')
          /\ now \subseteq Range(closeErr')
      ]_vars

\* C9: a close() that directly follows a close (or an aclose() that directly
\* follows an aclose) runs no release action and ends without error, and so
\* does a close() or aclose() of a store into which no resource was entered.
C9_IdempotentClose ==
    [][ /\ (lastOps[2] \in {"close", "exit_raised"} /\ lastOps'[2] = "close") =>
              released' = released /\ failed' = failed /\ closeErr' = <<>>
        /\ (lastOps[2] \in {"aclose", "aexit_raised"} /\ lastOps'[2] = "aclose") =>
              released' = released /\ failed' = failed /\ closeErr' = <<>>
        /\ (entered = <<>> /\ lastOps'[2] \in {"close", "aclose"}) =>
              released' = <<>> /\ closeErr' = <<>>
      ]_vars

\* close() was called twice in a row on a store whose resources had been
\* released, one of them with a failing release; the second call ended clean
C9_Witness ==
    /\ lastOps = <<"close", "close">>
    /\ Len(entered) >= 2 /\ Pending = <<>>
    /\ failed # {}
    /\ closeErr = <<>>

(* --------------------- failure of the winner --------------------------- *)
\* an error leaves the lock block without releasing the per-type lock
Unlock_Keep(p, to) ==
    /\ holds' = [holds EXCEPT ![p] = FALSE]
    /\ pc' = [pc EXCEPT ![p] = to]
    /\ UNCHANGED <<locks, fut, sync_locks>>

\* an error raised inside the lock block is thrown into lock() / sync_lock()
\* at its `yield`: the `with self._locks[...]` statement releases the lock and
\* the error goes on to the caller
Unlock(p, to) ==
    /\ IF holds[p]
       THEN IF path[p] = "async"
            THEN /\ locks' = [locks EXCEPT ![TypeOf(p)] = ReleaseAsync(@)]
                 /\ fut' = WakeUpFirst(fut, locks[TypeOf(p)].waiters)
                 /\ sync_locks' = sync_locks
            ELSE /\ sync_locks' = [sync_locks EXCEPT ![TypeOf(p)].locked = FALSE]
                 /\ UNCHANGED <<locks, fut>>
       ELSE UNCHANGED <<locks, fut, sync_locks>>
    /\ holds' = [holds EXCEPT ![p] = FALSE]
    /\ pc' = [pc EXCEPT ![p] = to]

\* the factory raises instead of returning: nothing is added
FactoryFail(p) ==
    /\ pc[p] = "factory"
    /\ Unlock(p, "failed")
    /\ UNCHANGED <<cache, store, provider, path, flag, obj, result, calls, round,
                   nextObj, cancelReq, stackVars, annVars, nestVars>>
    /\ Sched(p)

\* the winner's task is cancelled while it is suspended inside the factory:
\* CancelledError is raised there and leaves the lock block like any error
WinnerCancelled(p) ==
    /\ pc[p] = "factory"
    /\ path[p] = "async"
    /\ running = 0
    /\ cancelReq' = [cancelReq EXCEPT ![p] = TRUE]
    /\ Unlock(p, "cancelled")
    /\ UNCHANGED <<cache, store, provider, path, flag, obj, result, calls, round,
                   nextObj, stackVars, annVars, nestVars>>
    /\ Sched(p)

StepFail(p) ==
    \/ LockCheck(p)
    \/ AcquireAsync(p)
    \/ ResumeAsync(p)
    \/ AcquireSync(p)
    \/ YieldFlag(p)
    \/ StartFactory(p)
    \/ FinishFactory(p)
    \/ Leave(p)
    \/ DoGet(p)
    \/ FactoryFail(p)
    \/ WinnerCancelled(p)

NextFail == \E p \in Callers: StepFail(p)

\* requesters of one singleton type on one call path; a construction may fail
\* or be cancelled
SpecFail == Init /\ [][NextFail]_vars

Aborted == {"failed", "cancelled"}
LockedFor(p) ==
    IF path[p] = "async" THEN locks[TypeOf(p)].locked ELSE sync_locks[TypeOf(p)].locked

\* C11: when the winner fails or is cancelled inside the factory, that step
\* releases the per-type lock and leaves the cache without an entry; no caller
\* ever runs the factory twice (the store does not retry); and as long as no
\* construction has succeeded, the caller that next gets the lock is yielded
\* True and is the only caller constructing.
C11_WinnerFailure ==
    [][ /\ \A p \in Callers: (pc[p] = "factory" /\ pc'[p] \in Aborted) =>
              /\ ~holds'[p]
              /\ ~LockedFor(p)'
              /\ cache' = cache
              /\ calls' = calls
        /\ \A p \in Callers: calls'[p] <= 1
        /\ Constructed' = {} => cache'[Singletons]["T1"] = NotInCache
        /\ \A p \in Callers: (pc[p] = "L_yield" /\ pc'[p] = "body" /\ Constructed = {}) =>
              flag'[p]
        /\ Cardinality({p \in Callers: pc'[p] = "factory"}) <= 1
      ]_vars

\* a winner failed or was cancelled in the factory, and a later caller became
\* the winner, constructed and got its own instance
C11_Witness ==
    \E p, q \in Callers:
        /\ pc[p] \in Aborted /\ calls[p] = 1 /\ obj[p] = NotInCache
        /\ pc[q] = "done" /\ calls[q] = 1 /\ flag[q]
        /\ result[q] = obj[q] /\ result[q] # NotInCache

(* --------------------- progress of blocked requesters ------------------ *)
\* the event loop runs every ready task, the operating system every runnable
\* thread, and the factory terminates: no caller's next step stays enabled
\* forever without being taken
SpecLive == Init /\ [][Next]_vars /\ \A p \in Callers: WF_vars(Step(p))

\* waiting for the per-type lock: suspended on the waiter future of
\* asyncio.Lock.acquire, or in threading.Lock.acquire while the lock is held
Blocked(p) ==
    \/ pc[p] = "L_wait"
    \/ pc[p] = "L_acquire" /\ path[p] = "sync" /\ sync_locks[TypeOf(p)].locked

\* C12: a requester blocked on the singleton's per-type lock eventually gets
\* through: it is yielded False, never runs the factory, and its get returns
\* the instance the winner constructed and cached.
C12_BlockedEventuallyServed ==
    \A p \in Callers:
        Blocked(p) ~> /\ pc[p] = "done"
                      /\ ~flag[p]
                      /\ calls[p] = 0
                      /\ result[p] # NotInCache
                      /\ \E q \in Callers: calls[q] = 1 /\ obj[q] = result[p]

\* an asynchronous requester that had to wait (the winner suspended in the
\* factory while holding the lock) now holds the lock inside the block with
\* flag False, and the cache has the winner's instance for it to get
C12_Witness ==
    \E p, q \in Callers:
        /\ path[p] = "async"
        /\ pc[p] = "body" /\ holds[p] /\ ~flag[p] /\ calls[p] = 0
        /\ calls[q] = 1 /\ obj[q] # NotInCache
        /\ Get(cache, store[p], provider[p]) = obj[q]

(* --------------------- double-checked locking -------------------------- *)
InBlock == {"body", "factory", "leave"}
\* callers of one lock table that are inside the block with flag True
Winners(m) == {p \in Callers: path[p] = m /\ pc[p] \in InBlock /\ flag[p]}

\* C14: the first check of lock / sync_lock sends a caller whose type is
\* cached into the block with flag False and touches no lock table (no lock is
\* created or acquired); a caller whose type is absent goes for the per-type
\* lock, and the flag it is yielded with the lock held is True exactly when the
\* type is still absent at that moment; per lock table at most one caller is in
\* the block with flag True, and it holds the type's lock of that table.
C14_DoubleChecked ==
    [][ /\ \A p \in Callers: (pc[p] = "idle" /\ pc'[p] # "idle") =>
              IF NotCached(cache, store[p], provider[p])
              THEN pc'[p] = "L_acquire" /\ ~holds'[p]
              ELSE /\ pc'[p] = "body" /\ ~flag'[p] /\ ~holds'[p]
                   /\ locks' = locks /\ sync_locks' = sync_locks
        /\ \A p \in Callers: (pc[p] = "L_yield" /\ pc'[p] = "body") =>
              /\ holds[p] /\ holds'[p] /\ LockedFor(p)
              /\ flag'[p] = NotCached(cache, store[p], provider[p])
        /\ \A m \in Paths:
              /\ Cardinality(Winners(m)') <= 1
              /\ \A p \in Winners(m)': holds'[p] /\ LockedFor(p)'
      ]_vars

\* one caller took the fast path (in the block, flag False, no lock held, and
\* its table has no lock at all) while a winner of the other table, having
\* added the instance, is still in the block with its lock
C14_Witness ==
    \E p, q \in Callers:
        /\ pc[p] = "body" /\ ~flag[p] /\ ~holds[p]
        /\ path[p] = "sync" /\ ~sync_locks[TypeOf(p)].exists
        /\ pc[q] = "leave" /\ flag[q] /\ holds[q] /\ LockedFor(q)
        /\ ~NotCached(cache, store[p], provider[p])

(* --------------------- per-type granularity ---------------------------- *)
\* requesters of two singleton types, all on the same call path; callers are
\* interchangeable, so they are listed with the requesters of T1 first
InitKeys ==
    /\ InitStores
    /\ InitCallers
    /\ store = [p \in Callers |-> Singletons]
    /\ provider \in [Callers -> {Singleton("T1"), Singleton("T2")}]
    /\ \A p, q \in Callers: (p < q /\ provider[p].type_ = "T2") => provider[q].type_ = "T2"
    /\ \E m \in Paths: path = [p \in Callers |-> m]

SpecKeys == InitKeys /\ [][Next]_vars

\* cannot proceed: its waiter future is pending, or threading.Lock.acquire
\* finds the lock it indexes held
Stuck(p) ==
    \/ pc[p] = "L_wait" /\ fut[p] = "pending"
    \/ pc[p] = "L_acquire" /\ path[p] = "sync" /\ sync_locks[TypeOf(p)].locked

\* q has, or has been handed, the lock of its own type
HasLock(q) == holds[q] \/ (pc[q] = "L_wait" /\ fut[q] = "done")

\* C15: locks are per type: a requester that cannot proceed is always kept
\* out by a caller that has the lock of the very type it requests, never by
\* the holder of another type's lock; constructions of different types run at
\* the same time.
C15_PerKey ==
    \A p \in Callers: Stuck(p) =>
        \E q \in Callers \ {p}: provider[q].type_ = provider[p].type_ /\ HasLock(q)

\* two constructions of different types are in progress at once, each winner
\* holding the lock of its type, while a third requester waits for one of them
C15_Witness ==
    \E p, q, r \in Callers:
        /\ pc[p] = "factory" /\ holds[p] /\ provider[p].type_ = "T1"
        /\ pc[q] = "factory" /\ holds[q] /\ provider[q].type_ = "T2"
        /\ Stuck(r)

(* --------------------- the two lock tables ----------------------------- *)
\* C16: the table of asyncio locks and the table of thread locks are
\* independent: a sync_lock caller that cannot proceed is kept out by another
\* sync_lock caller holding the thread lock, and a waiting lock caller by
\* another lock caller that has the asyncio lock; a holder on the other call
\* path never blocks it.
C16_TablesIndependent ==
    \A p \in Callers: Stuck(p) =>
        \E q \in Callers \ {p}: path[q] = path[p] /\ HasLock(q)

\* a thread and a task hold the lock of the same type at the same time, each
\* in its own table, both constructing
C16_Witness ==
    \E p, q \in Callers:
        /\ path[p] = "sync" /\ path[q] = "async"
        /\ provider[p].type_ = provider[q].type_
        /\ pc[p] = "factory" /\ holds[p] /\ sync_locks[TypeOf(p)].locked
        /\ pc[q] = "factory" /\ holds[q] /\ locks[TypeOf(q)].locked

(* --------------------- entering a resource ----------------------------- *)
Resources == {"cm", "acm"}
StackSize == Len(exit_stack) + Len(sync_exit_stack)

\* C17: enter_sync_context and enter_context given a resource (a context
\* manager, synchronous or asynchronous) push exactly one release action and
\* return the entered value; given any other value they return it as it is and
\* change neither the cleanup stacks nor the cache.
C17_EnterResource ==
    [][ (lastOps'[2] = "enter" /\ <<lastOps, ret, entered>>' # <<lastOps, ret, entered>>) =>
            /\ cache' = cache
            /\ IF ret'.kind \in Resources
               THEN /\ ret'.live
                    /\ StackSize' = StackSize + 1
                    /\ Len(entered') = Len(entered) + 1
               ELSE /\ ~ret'.live
                    /\ exit_stack' = exit_stack
                    /\ sync_exit_stack' = sync_exit_stack
      ]_vars

(* --------------------- a store used after it was closed ---------------- *)
\* the user of one scope: caller 1 resolves Scoped(T1) through store 1; between
\* two resolutions resources are entered and the store is closed, and the
\* next resolution starts only after a close
User == 1
\* values whose release action, if they have one, returns normally
Released == {v \in Values: v.onExit = "ok"}

InitClose ==
    /\ InitStores
    /\ holds = [p \in Callers |-> FALSE]
    /\ flag = [p \in Callers |-> FALSE]
    /\ obj = [p \in Callers |-> NotInCache]
    /\ result = [p \in Callers |-> NotInCache]
    /\ calls = [p \in Callers |-> 0]
    /\ round = [p \in Callers |-> 0]
    /\ nextObj = 1
    /\ pc = [p \in Callers |-> IF p = User THEN "idle" ELSE "off"]
    /\ store = [p \in Callers |-> 1]
    /\ provider = [p \in Callers |-> Scoped("T1")]
    /\ \E m \in Paths: path = [p \in Callers |-> m]

NextClose ==
    \/ PlainLock(User)
    \/ StartFactory(User)
    \/ FinishFactory(User)
    \/ Leave(User)
    \/ DoGet(User)
    \/ lastOps[2] \in CloseOps /\ Restart(User)
    \/ pc[User] = "done" /\ \E v \in Released: EnterSyncContext(v)
    \/ pc[User] = "done" /\ \E v \in Released: EnterContext(v)
    \/ pc[User] = "done" /\ \E raised \in BOOLEAN: Close(raised)
    \/ pc[User] = "done" /\ \E raised \in BOOLEAN: AClose(raised)

SpecClose == InitClose /\ [][NextClose]_vars

\* C19: closing the store leaves its cache as it was: a close step changes no
\* cache entry, and a resolution made after the close is yielded False by
\* lock / sync_lock and its get returns the instance that was cached before
\* the close.
C19_CloseKeepsCache ==
    [][ /\ (lastOps'[2] \in CloseOps /\ <<lastOps, released, exit_stack, sync_exit_stack>>'
                                        # <<lastOps, released, exit_stack, sync_exit_stack>>) =>
              cache' = cache
        /\ (round[User] >= 1 /\ pc[User] = "idle" /\ pc'[User] = "body") =>
              ~flag'[User]
        /\ (round[User] >= 1 /\ pc[User] = "get" /\ pc'[User] = "done") =>
              result'[User] = result[User] /\ result'[User] = obj[User]
      ]_vars

\* the store was closed with resources released, then the user resolved again:
\* it was yielded False, did not construct, and got the instance of the first
\* resolution
C19_Witness ==
    /\ round[User] = 2 /\ pc[User] = "done"
    /\ released # <<>>
    /\ lastOps[2] \in CloseOps
    /\ ~flag[User] /\ calls[User] = 1
    /\ result[User] = obj[User] /\ result[User] # NotInCache

(* --------------------- annotation helpers ------------------------------ *)
\* the annotations a name may have
Plain == "int"
Meta == "Annotated[int, 'meta']"
InjectClass == "Annotated[int, Inject]"
InjectInstance == "Annotated[int, Inject()]"
Generic == "list[Inject]"
\* a string annotation that names nothing defined
Unresolved == "'Undefined'"
Annotations == {Plain, Meta, InjectClass, InjectInstance, Generic, Unresolved}

\* typing.get_args
get_args(a) ==
    CASE a = Meta -> <<"int", "'meta'">>
      [] a = InjectClass -> <<"int", "Inject">>
      [] a = InjectInstance -> <<"int", "Inject()">>
      [] a = Generic -> <<"Inject">>
      [] OTHER -> <<>>

\* any(isinstance(arg, Inject) or arg is Inject for arg in typing.get_args(a))
HasInject(a) ==
    \E i \in 1..Len(get_args(a)): get_args(a)[i] = "Inject()" \/ get_args(a)[i] = "Inject"

\* typing.get_type_hints(function, include_extras=True) raises NameError when
\* an annotation cannot be evaluated
TypeHintsRaise(ann) == \E n \in Names: ann[n] = Unresolved

\* typing.get_type_hints(function, include_extras=True): every annotated name
\* (the return annotation included) with its annotation
get_type_hints(ann) == [n \in {m \in Names: ann[m] # Absent} |-> ann[n]]

\* the dict comprehension of get_inject_annotations
InjectOnly(hints) == [n \in {m \in DOMAIN hints: HasInject(hints[m])} |-> hints[n]]

storeVars == <<cache, callerVars, lockVars, stackVars, running, nestVars>>

\* aioinject.utils.get_inject_annotations
utils_get_inject_annotations ==
    /\ fn = "utils.get_inject_annotations"
    /\ apc = "start"
    /\ IF TypeHintsRaise(annotations)
       THEN apc' = "raised" /\ out' = out
       ELSE apc' = "returned" /\ out' = InjectOnly(get_type_hints(annotations))
    /\ UNCHANGED <<annotations, annotations0, annotation, fn, storeVars>>

\* remove_annotation up to its yield: annotations.pop(name, sentinel)
remove_annotation_enter ==
    /\ fn = "_utils.get_inject_annotations"
    /\ apc = "start"
    /\ annotation' = IF annotations["return"] = Absent THEN sentinel
                     ELSE annotations["return"]
    /\ annotations' = [annotations EXCEPT !["return"] = Absent]
    /\ apc' = "block"
    /\ UNCHANGED <<annotations0, fn, out, storeVars>>

\* aioinject._utils.get_inject_annotations, the body of its with block
get_inject_annotations ==
    /\ apc = "block"
    /\ ~TypeHintsRaise(annotations)
    /\ out' = InjectOnly(get_type_hints(annotations))
    /\ apc' = "leave"
    /\ UNCHANGED <<annotations, annotations0, annotation, fn, storeVars>>

\* the body raises: the error is thrown into remove_annotation at its yield,
\* which has no try/finally, so the statements after the yield do not run
get_inject_annotations_raises ==
    /\ apc = "block"
    /\ TypeHintsRaise(annotations)
    /\ apc' = "raised"
    /\ UNCHANGED <<annotations, annotations0, annotation, fn, out, storeVars>>

\* remove_annotation after its yield: put the popped entry back
remove_annotation_exit ==
    /\ apc = "leave"
    /\ annotations' = IF annotation # sentinel
                      THEN [annotations EXCEPT !["return"] = annotation]
                      ELSE annotations
    /\ apc' = "returned"
    /\ UNCHANGED <<annotations0, annotation, fn, out, storeVars>>

\* a function with any annotations is given to either get_inject_annotations
InitAnn ==
    /\ InitStoreVars
    /\ InitFlat
    /\ InitCallers
    /\ store = [p \in Callers |-> Singletons]
    /\ provider = [p \in Callers |-> Singleton("T1")]
    /\ path = [p \in Callers |-> "sync"]
    /\ annotations \in [Names -> Annotations \cup {Absent}]
    /\ annotations0 = annotations
    /\ annotation = sentinel
    /\ fn \in {"utils.get_inject_annotations", "_utils.get_inject_annotations"}
    /\ apc = "start"
    /\ out = NoEntries

NextAnn ==
    \/ utils_get_inject_annotations
    \/ remove_annotation_enter
    \/ get_inject_annotations
    \/ get_inject_annotations_raises
    \/ remove_annotation_exit

SpecAnn == InitAnn /\ [][NextAnn]_vars

\* the parameters whose annotation carries an Inject marker, with their
\* annotations
InjectParams(ann) ==
    [n \in {m \in Params: ann[m] # Absent /\ HasInject(ann[m])} |-> ann[n]]

\* C13: get_inject_annotations(f) returns exactly the parameters of f whose
\* annotation has the Inject class or an Inject instance among its args, each
\* mapped to its full annotation, and nothing else.
C13_ExactlyInjectParams ==
    apc = "returned" => out = InjectParams(annotations0)

\* C20: remove_annotation(annotations, name): inside the block the mapping has
\* no entry for the name; once the block is left, normally or by an error, the
\* mapping is what it was before.
C20_RoundTrip ==
    /\ apc = "block" => annotations["return"] = Absent
    /\ (fn = "_utils.get_inject_annotations" /\ apc \in {"returned", "raised"}) =>
          annotations = annotations0

(* --------------------- nested resolution ------------------------------- *)
\* the number of callers that resolve through the nested protocol
NNested == 3
NestedCallers == {p \in Callers: p <= NNested}

\* the dependency graph of the singleton types: T1 is built from T2
Deps(t) == IF t = "T1" THEN <<"T2">> ELSE <<>>

\* the resolution in progress, as it is put aside while a dependency is
\* resolved
Frame(p) ==
    [provider |-> provider[p], flag |-> flag[p], holds |-> holds[p],
     resolved |-> resolved[p]]

\* inside the lock block of T with flag True, the resolver turns to the next
\* unresolved dependency of T: it keeps T's lock and enters store.lock /
\* sync_lock for the dependency, whose first check of the cache runs at once
Descend(p) ==
    /\ pc[p] = "body"
    /\ flag[p]
    /\ resolved[p] < Len(Deps(TypeOf(p)))
    /\ LET dep == Singleton(Deps(TypeOf(p))[resolved[p] + 1]) IN
       /\ outer' = [outer EXCEPT ![p] = Append(@, Frame(p))]
       /\ provider' = [provider EXCEPT ![p] = dep]
       /\ pc' = [pc EXCEPT ![p] = IF NotCached(cache, store[p], dep)
                                  THEN "L_acquire" ELSE "body"]
    /\ flag' = [flag EXCEPT ![p] = FALSE]
    /\ holds' = [holds EXCEPT ![p] = FALSE]
    /\ resolved' = [resolved EXCEPT ![p] = 0]
    /\ UNCHANGED <<cache, store, path, obj, result, calls, round, nextObj,
                   lockVars, stackVars, annVars>>
    /\ Sched(p)

\* the dependency's resolution ends with its get; the resolver is back in the
\* lock block of the type it was resolving
ReturnGet(p) ==
    /\ pc[p] = "get"
    /\ outer[p] # <<>>
    /\ LET f == outer[p][Len(outer[p])] IN
       /\ provider' = [provider EXCEPT ![p] = f.provider]
       /\ flag' = [flag EXCEPT ![p] = f.flag]
       /\ holds' = [holds EXCEPT ![p] = f.holds]
       /\ resolved' = [resolved EXCEPT ![p] = f.resolved + 1]
    /\ outer' = [outer EXCEPT ![p] = SubSeq(@, 1, Len(@) - 1)]
    /\ result' = [result EXCEPT ![p] = Get(cache, store[p], provider[p])]
    /\ pc' = [pc EXCEPT ![p] = "body"]
    /\ UNCHANGED <<cache, store, path, obj, calls, round, nextObj,
                   lockVars, stackVars, annVars>>
    /\ Sched(p)

StepNested(p) ==
    \/ LockCheck(p)
    \/ AcquireAsync(p)
    \/ ResumeAsync(p)
    \/ AcquireSync(p)
    \/ YieldFlag(p)
    \/ Descend(p)
    \/ ReturnGet(p)
    \/ resolved[p] = Len(Deps(TypeOf(p))) /\ StartFactory(p)
    \/ FinishFactory(p)
    \/ Leave(p)
    \/ outer[p] = <<>> /\ DoGet(p)

NextNested == \E p \in NestedCallers: StepNested(p)

\* callers of one call path request T1 or T2
InitNested ==
    /\ InitStores
    /\ holds = [p \in Callers |-> FALSE]
    /\ flag = [p \in Callers |-> FALSE]
    /\ obj = [p \in Callers |-> NotInCache]
    /\ result = [p \in Callers |-> NotInCache]
    /\ calls = [p \in Callers |-> 0]
    /\ round = [p \in Callers |-> 0]
    /\ nextObj = 1
    /\ pc = [p \in Callers |-> IF p \in NestedCallers THEN "idle" ELSE "off"]
    /\ store = [p \in Callers |-> Singletons]
    /\ provider \in [Callers -> {Singleton("T1"), Singleton("T2")}]
    /\ \A p \in Callers \ NestedCallers: provider[p] = Singleton("T1")
    /\ \E m \in Paths: path = [p \in Callers |-> m]

\* every ready task and every runnable thread gets to run, and factories
\* return
SpecNested ==
    InitNested /\ [][NextNested]_vars /\ \A p \in NestedCallers: WF_vars(StepNested(p))

Completed(p) ==
    /\ pc[p] = "done"
    /\ outer[p] = <<>>
    /\ result[p] # NotInCache
    /\ result[p] = Get(cache, store[p], provider[p])

\* C18: with an acyclic dependency graph and a resolver that keeps the lock
\* of a type while it takes the locks of the type's dependencies, concurrent
\* requesters of one call path never end up waiting on each other: as long as
\* a resolution is unfinished some caller can take a step, and every
\* resolution eventually completes with the requested instance.
C18_NestedCompletes ==
    /\ []((\E p \in NestedCallers: ~Completed(p)) => ENABLED NextNested)
    /\ \A p \in NestedCallers: <>[]Completed(p)

\* a requester of T1 keeps T1's lock and waits for T2's lock, which another
\* requester holds while it constructs T2
C18_Witness ==
    \E p, q \in NestedCallers:
        /\ Len(outer[p]) = 1 /\ outer[p][1].holds /\ outer[p][1].provider.type_ = "T1"
        /\ provider[p].type_ = "T2" /\ Stuck(p)
        /\ pc[q] = "factory" /\ holds[q] /\ provider[q].type_ = "T2"

====
